---- MODULE Spec2Model ----
(***************************************************************************)
(* lastfeeder: RSS feeds of Last.fm users' recent tracks.                  *)
(*                                                                         *)
(* Specifications over one set of variables:                               *)
(*   Spec        scheduled runs of cli.py main over one or two usernames:  *)
(*               get_recent_tracks, create_rss, add_track_rss_entry;       *)
(*   SpecOnce    one run of main for one user, whatever file earlier runs  *)
(*               left (same actions as Spec);                              *)
(*   SpecGuid    one run for one user whose scrobbles have hyphens in      *)
(*               their names;                                              *)
(*   SpecRate    the rate limiter api_wait, one caller, against real time; *)
(*   SpecSkew    SpecRate with a wall clock that is set while it runs;     *)
(*   SpecFloat   SpecRate with times finer than the floats of time();      *)
(*   SpecThreads api_wait called by two threads, and SpecLocked the same   *)
(*               under a lock.                                             *)
(* In Spec and SpecOnce a call of api_wait is an event in ops; its timing  *)
(* is what SpecRate models.                                                *)
(*                                                                         *)
(* Strings are sequences of one-character strings, so that formatting      *)
(* (mkguid, titles) is real concatenation.  A dict is a record plus the    *)
(* set of keys that are present; reading an absent key raises KeyError.    *)
(***************************************************************************)
EXTENDS Integers, Sequences, FiniteSets, TLC

VARIABLES
    \* ---- environment
    remote,               \* the service's recent-tracks list of each user
    files,                \* feed_dir/<username>.rss of each user
    \* ---- cli.py main
    usernames,            \* self.usernames
    runs,                 \* usernames the runs of main started so far cover
    todo,                 \* usernames the for loop has not reached yet
    pc,                   \* position of the run
    \* ---- one create_recent_tracks_rss call
    username,
    recent_tracks,
    idx,                  \* tracks of recent_tracks the for loop has consumed
    feed,                 \* entries of the FeedGenerator, in document order
    builds,               \* FeedGenerator objects built so far (lastBuildDate)
    decision,             \* outcome of the up-to-date guard
    raised,               \* exception propagating out of the call, "" if none
    caught,               \* tracks whose exception the loop caught and logged
    playcount,            \* return value of the last get_playcount
    probe,                \* outcome of the last image HEAD probe
    ops,                  \* steps of this sync in order: limiter and outbound
                          \* calls, the guard, the write
    hist,                 \* per user: the previous sync (returned?, fetched, file left)
    \* ---- api_wait
    clock,                \* real elapsed time, in ticks
    has_last,             \* hasattr(self, 'last_api_call_time')
    last_api_call_time,
    now,
    time_since,
    apc,                  \* position inside api_wait
    calls,                \* api_wait calls that have returned
    slept,                \* the current/last call slept
    prev_return,          \* real time at which the call before the last returned
    last_return,          \* real time at which the last call returned
    skew,                 \* wall clock minus real elapsed time
    ulp,                  \* spacing of the floats time() can return
    min_delay,            \* the argument of api_wait
    waited,               \* time the current/last call asked sleep() for, in all
    overslept,            \* some sleep() lasted longer than asked
    other                 \* a second thread inside api_wait: its apc, now, time_since

envVars  == <<remote, files>>
mainVars == <<usernames, runs, todo, pc>>
syncVars == <<username, recent_tracks, idx, feed, builds, decision, raised,
              caught, playcount, probe, ops, hist>>
rateVars == <<clock, has_last, last_api_call_time, now, time_since, apc, calls,
              slept, prev_return, last_return, skew, ulp, min_delay, waited,
              overslept, other>>
vars == <<envVars, mainVars, syncVars, rateVars>>

(***************************************************************************)
(* Bounds                                                                  *)
(***************************************************************************)
MaxTracks == 2        \* raw tracks the service holds, over all users
MaxSyncs == 2         \* usernames synced, over all runs of main
MaxPlaycount == 1     \* largest userplaycount the service reports
MaxOld == 1           \* tracks of a feed file left by an earlier run
MaxClock == 9         \* ticks of real time modelled
MaxOversleep == 1     \* ticks sleep() may last beyond the request
MaxJump == 2          \* ticks the wall clock can be set off real time
Ulp == 4              \* ticks between two floats, where api_wait is
                      \* checked with times that are not all floats

\* min_delay = 0.2 s, one tick = 0.1 s
MinDelay == 2

(***************************************************************************)
(* Strings                                                                 *)
(***************************************************************************)
Digits == <<"0", "1", "2", "3", "4", "5", "6", "7", "8", "9">>

\* str(n) for the small counts modelled
Str(n) == IF n < 0 THEN <<"-">> \o <<Digits[1 - n]>>
          ELSE IF n < 10 THEN <<Digits[n + 1]>>
          ELSE <<Digits[(n \div 10) + 1], Digits[(n % 10) + 1]>>

DigitVal(c) == CHOOSE d \in 0..9 : Digits[d + 1] = c

IsDigits(s) == Len(s) > 0 /\ \A i \in 1..Len(s) : \E d \in 0..9 : Digits[d + 1] = s[i]

RECURSIVE ToInt(_)
\* int(s) of a digit string
ToInt(s) == IF Len(s) = 0 THEN 0
            ELSE 10 * ToInt(SubSeq(s, 1, Len(s) - 1)) + DigitVal(s[Len(s)])

RECURSIVE LStrip(_)
LStrip(s) == IF Len(s) > 0 /\ s[1] = " " THEN LStrip(Tail(s)) ELSE s

RECURSIVE RStrip(_)
RStrip(s) == IF Len(s) > 0 /\ s[Len(s)] = " "
             THEN RStrip(SubSeq(s, 1, Len(s) - 1)) ELSE s

\* str.strip()
Strip(s) == RStrip(LStrip(s))

None == -1000         \* Python's None where an int is expected

(***************************************************************************)
(* Raw tracks: user.getRecentTracks(...)['recenttracks']['track'][i]       *)
(***************************************************************************)
TrackKeys == {"@attr", "artist", "name", "date", "url", "image"}

\* a complete scrobble; image is the list of the image entries' '#text'
Scrobble(text, mbid, name, uts, image) ==
    [keys |-> TrackKeys \ {"@attr"}, nowplaying |-> "", text |-> text,
     mbid |-> mbid, name |-> name, uts |-> uts, url |-> <<"l">>, image |-> image]

\* the record without key k
Drop(t, k) == [t EXCEPT !.keys = @ \ {k}]

\* the currently playing pseudo-entry: an @attr, and no date
NowPlaying(t) == [t EXCEPT !.keys = (@ \cup {"@attr"}) \ {"date"},
                           !.nowplaying = "true", !.uts = <<>>]

TrackA == Scrobble(<<"a">>, <<>>, <<"x">>, <<"1">>, << <<"s">>, <<"h", " ">> >>)
TrackB == Drop(Scrobble(<<"b">>, <<"m">>, <<"x">>, <<"2">>, <<>>), "image")

\* keys a malformed record lacks: "name" fails the title, "date" the guid
DroppedKeys == {"name", "date"}

Tracks == {TrackA, TrackB, NowPlaying(TrackB)}
              \cup {Drop(TrackA, k) : k \in DroppedKeys}

Users == {<<"u">>, <<"v">>}

\* the username sets a run is started with
UserSets == {{<<"u">>}, {<<"u">>, <<"v">>}}

RECURSIVE ListsUpTo(_)
\* the track lists of at most n tracks
ListsUpTo(n) == IF n = 0 THEN {<<>>}
                ELSE LET S == ListsUpTo(n - 1)
                     IN  S \cup {<<t>> \o l : t \in Tracks, l \in {x \in S : Len(x) = n - 1}}

TotalTracks(r) == Len(r[<<"u">>]) + Len(r[<<"v">>])

\* track.get('@attr', {}).get('nowplaying') == 'true'
IsNowPlaying(t) == "@attr" \in t.keys /\ t.nowplaying = "true"

\* mkguid raises KeyError unless date, artist and name can be read
MkguidRaises(t) == ~({"date", "artist", "name"} \subseteq t.keys)

\* A poor man's scrobble-event unique id.
mkguid(u, t) ==
    u \o <<"-">> \o t.uts \o <<"-", "-">>
      \o (IF t.mbid # <<>> THEN t.mbid ELSE t.text)
      \o <<"-", "-", "-">> \o t.name

(***************************************************************************)
(* Feed entries and feed files                                             *)
(***************************************************************************)
\* feed.add_entry(): a new entry with nothing set
EmptyEntry == [title |-> <<>>, guid |-> <<>>, link |-> <<>>, published |-> -1,
               enclosure |-> <<>>]

Absent == [state |-> "absent", build |-> 0, items |-> <<>>]

\* a file ElementTree.parse cannot read (e.g. a write that was cut short)
Malformed == [state |-> "malformed", build |-> 0, items |-> <<>>]

\* the document rss_file writes: channel with lastBuildDate, then the items
FeedFile(b, items) == [state |-> "feed", build |-> b, items |-> items]

\* add_entry putting the new entry last
AddEntryAppends(entries, e) == Append(entries, e)

\* feed.add_entry() with its default order: the new entry goes first
AddEntry(entries, e) == <<e>> \o entries

\* what get_playcount can return: None on any failure, else the count
PlayCounts == {None} \cup (0..MaxPlaycount)

\* outcomes of head(url, timeout=TIMEOUT) and of reading its two headers
ProbeResults == {"ok", "error", "no_header"}

\* Content-Length and Content-Type of the image
ImageHeaders == << <<"9">>, <<"i">> >>

\* Title with the suffix on every count that is not None, 0 included
TitleCountsZero(track, n) ==
    track.text \o <<" ", "-", " ">> \o track.name
      \o (IF n # None
          THEN <<" ", "(">> \o Str(n) \o <<" ", "p", "l", "a", "y">>
                 \o (IF n > 1 THEN <<"s">> ELSE <<>>) \o <<")">>
          ELSE <<>>)

\* "{artist} - {name}" plus " ({n} play{s})" when playcount is truthy
Title(track, n) ==
    track.text \o <<" ", "-", " ">> \o track.name
      \o (IF n # None /\ n # 0
          THEN <<" ", "(">> \o Str(n) \o <<" ", "p", "l", "a", "y">>
                 \o (IF n > 1 THEN <<"s">> ELSE <<>>) \o <<")">>
          ELSE <<>>)

\* url of the last image, trimmed; <<>> when there is nothing to probe
ImageUrl(track) ==
    IF "image" \in track.keys /\ Len(track.image) >= 1
    THEN Strip(track.image[Len(track.image)])
    ELSE <<>>

\* add_track_rss_entry with the image probed right after the title is set
AddTrackRssEntryProbesFirst(track, u, n, h) ==
    LET asked == <<"api_wait", "track.getinfo">>
        e1 == [EmptyEntry EXCEPT !.title = Title(track, n)]
        e4 == [e1 EXCEPT !.guid = mkguid(u, track), !.link = track.url,
                         !.published = ToInt(track.uts)]
        e5 == [e4 EXCEPT !.enclosure = <<ImageUrl(track)>> \o ImageHeaders]
        Out(e, r, o, pl, pr) ==
            [entry |-> e, raised |-> r, ops |-> o, playcount |-> pl, probe |-> pr]
    IN  IF ~({"artist", "name"} \subseteq track.keys)
        THEN Out(EmptyEntry, TRUE, <<>>, None, "none")
        ELSE IF ImageUrl(track) # <<>> /\ h # "ok"
        THEN Out(e1, TRUE, asked \o <<"HEAD">>, n, h)
        ELSE IF MkguidRaises(track)
        THEN Out(e1, TRUE, asked, n, "none")
        ELSE IF "url" \notin track.keys
        THEN Out([e1 EXCEPT !.guid = mkguid(u, track)], TRUE, asked, n, "none")
        ELSE IF ImageUrl(track) = <<>>
        THEN Out(e4, FALSE, asked, n, "none")
        ELSE Out(e5, FALSE, asked \o <<"HEAD">>, n, h)

\* Add a new RSS entry for the track to the feed: the entry as it stands when
\* the method returns or raises, whether it raised, and the calls it made.
\* n is what get_playcount returns, h the outcome of the HEAD probe.
AddTrackRssEntry(track, u, n, h) ==
    LET asked == <<"api_wait", "track.getinfo">>
        e1 == [EmptyEntry EXCEPT !.title = Title(track, n)]
        e2 == [e1 EXCEPT !.guid = mkguid(u, track)]
        e3 == [e2 EXCEPT !.link = track.url]
        e4 == [e3 EXCEPT !.published = ToInt(track.uts)]
        e5 == [e4 EXCEPT !.enclosure = <<ImageUrl(track)>> \o ImageHeaders]
        Out(e, r, o, pl, pr) ==
            [entry |-> e, raised |-> r, ops |-> o, playcount |-> pl, probe |-> pr]
    IN  IF ~({"artist", "name"} \subseteq track.keys)
        THEN Out(EmptyEntry, TRUE, <<>>, None, "none")
        ELSE IF MkguidRaises(track)
        THEN Out(e1, TRUE, asked, n, "none")
        ELSE IF "url" \notin track.keys
        THEN Out(e2, TRUE, asked, n, "none")
        ELSE IF ~IsDigits(track.uts)
        THEN Out(e3, TRUE, asked, n, "none")
        ELSE IF ImageUrl(track) = <<>>
        THEN Out(e4, FALSE, asked, n, "none")
        ELSE IF h # "ok"
        THEN Out(e4, TRUE, asked \o <<"HEAD">>, n, h)
        ELSE Out(e5, FALSE, asked \o <<"HEAD">>, n, h)

\* get_recent_tracks: the list the call returns when the service answered
\* with the list r (an empty list raises IndexError, caught: [])
FetchedTracks(r) ==
    IF Len(r) = 0 THEN <<>>
    ELSE IF IsNowPlaying(r[1]) THEN Tail(r)
    ELSE r

\* [*old_feed.iter('guid')]: the guid texts of the file in document order
OldGuids(f) ==
    LET F[i \in 0..Len(f.items)] ==
            IF i = 0 THEN <<>>
            ELSE IF f.items[i].guid # <<>> THEN Append(F[i - 1], f.items[i].guid)
            ELSE F[i - 1]
    IN  F[Len(f.items)]

\* The up-to-date guard of create_rss on the file f.
Guard(f, u, tracks) ==
    IF f.state = "absent" THEN "NEEDS_UPDATE"
    ELSE IF f.state = "malformed" THEN "ParseError"
    ELSE IF OldGuids(f) = <<>> \/ tracks = <<>> THEN "NEEDS_UPDATE"
    ELSE IF MkguidRaises(tracks[1]) THEN "KeyError"
    ELSE IF OldGuids(f)[Len(OldGuids(f))] = mkguid(u, tracks[1]) THEN "UP_TO_DATE"
    ELSE "NEEDS_UPDATE"

\* feed.rss_file raises ValueError for an item without title, description
\* and content
RssFileRaises(entries) == \E i \in 1..Len(entries) : entries[i].title = <<>>

(***************************************************************************)
(* Initial states                                                          *)
(***************************************************************************)
\* nothing synced yet: the file is the one found before the first run
NoHist(f) == [valid |-> FALSE, fetched |-> <<>>, content |-> f]

\* a thread that is not inside api_wait
ThreadIdle == [apc |-> "idle", now |-> 0, time_since |-> 0]

\* no call of api_wait made yet
CallerIdle ==
    /\ clock = 0
    /\ has_last = FALSE
    /\ last_api_call_time = 0
    /\ now = 0
    /\ time_since = 0
    /\ apc = "idle"
    /\ calls = 0
    /\ slept = FALSE
    /\ prev_return = -1
    /\ last_return = -1
    /\ skew = 0
    /\ waited = 0
    /\ overslept = FALSE
    /\ other = ThreadIdle

\* the limiter as the program uses it: the default min_delay, and a scale at
\* which every time is a float
RateIdle ==
    /\ CallerIdle
    /\ ulp = 1
    /\ min_delay = MinDelay

SyncIdle ==
    /\ username = <<>>
    /\ recent_tracks = <<>>
    /\ idx = 0
    /\ feed = <<>>
    /\ builds = 0
    /\ decision = "none"
    /\ raised = ""
    /\ caught = {}
    /\ playcount = None
    /\ probe = "none"
    /\ ops = <<>>
    /\ hist = [u \in Users |-> NoHist(files[u])]

\* Before the first run: the service holds some tracks of the users asked
\* for, and each of their feed files is missing or unreadable.
Init ==
    /\ usernames \in UserSets
    /\ remote \in {r \in [Users -> ListsUpTo(MaxTracks)] :
                      /\ TotalTracks(r) <= MaxTracks
                      /\ \A u \in Users \ usernames : r[u] = <<>>}
    /\ files \in {f \in [Users -> {Absent, Malformed}] :
                      \A u \in Users \ usernames : f[u] = Absent}
    /\ runs = 0
    /\ todo = {}
    /\ pc = "idle"
    /\ SyncIdle
    /\ RateIdle

(***************************************************************************)
(* cli.py: LastFeederCLI.main                                              *)
(***************************************************************************)
\* main is started (the schedule re-runs it): lf = LastFeeder(), the loop is
\* over set(self.usernames)
MainStart ==
    /\ pc \in {"idle", "exited", "crashed"}
    /\ runs + Cardinality(usernames) <= MaxSyncs
    /\ runs' = runs + Cardinality(usernames)
    /\ todo' = usernames
    /\ pc' = "main"
    /\ UNCHANGED <<envVars, usernames, syncVars, rateVars>>

\* The loop takes the next username (a set: any order) and
\* create_recent_tracks_rss evaluates self.get_recent_tracks(username).
GetRecentTracks ==
    /\ pc = "main"
    /\ \E u \in todo, answered \in BOOLEAN :
         /\ todo' = todo \ {u}
         /\ username' = u
         /\ recent_tracks' = IF answered THEN FetchedTracks(remote[u]) ELSE <<>>
    /\ idx' = 0
    /\ feed' = <<>>
    /\ decision' = "none"
    /\ raised' = ""
    /\ caught' = {}
    /\ playcount' = None
    /\ probe' = "none"
    /\ ops' = <<"api_wait", "user.getrecenttracks">>
    /\ pc' = "create_rss"
    /\ UNCHANGED <<envVars, usernames, runs, builds, hist, rateVars>>

\* create_rss whose guard logs "up to date" and does not return
CreateRssFallsThrough ==
    /\ pc = "create_rss"
    /\ LET g == Guard(files[username], username, recent_tracks)
       IN  \/ /\ g \in {"UP_TO_DATE", "NEEDS_UPDATE"}
              /\ decision' = g
              /\ builds' = builds + 1
              /\ pc' = "tracks"
              /\ UNCHANGED raised
           \/ /\ g \in {"ParseError", "KeyError"}
              /\ raised' = g
              /\ pc' = "raised"
              /\ UNCHANGED <<decision, builds>>
    /\ ops' = Append(ops, "guard")
    /\ UNCHANGED <<envVars, usernames, runs, todo, username, recent_tracks, idx,
                   feed, caught, playcount, probe, hist, rateVars>>

\* create_rss up to the for loop: the guard, then a new FeedGenerator
CreateRss ==
    /\ pc = "create_rss"
    /\ LET g == Guard(files[username], username, recent_tracks)
       IN  \/ /\ g = "UP_TO_DATE"
              /\ decision' = g
              /\ pc' = "returned"
              /\ UNCHANGED <<raised, builds>>
           \/ /\ g = "NEEDS_UPDATE"
              /\ decision' = g
              /\ builds' = builds + 1
              /\ pc' = "tracks"
              /\ UNCHANGED raised
           \/ /\ g \in {"ParseError", "KeyError"}
              /\ raised' = g
              /\ pc' = "raised"
              /\ UNCHANGED <<decision, builds>>
    /\ ops' = Append(ops, "guard")
    /\ UNCHANGED <<envVars, usernames, runs, todo, username, recent_tracks, idx,
                   feed, caught, playcount, probe, hist, rateVars>>

\* one iteration of the loop without the now-playing filter
AddTrackUnfiltered ==
    /\ pc = "tracks"
    /\ idx < Len(recent_tracks)
    /\ idx' = idx + 1
    /\ \E n \in PlayCounts, h \in ProbeResults :
         LET r == AddTrackRssEntry(recent_tracks[idx + 1], username, n, h)
         IN  /\ feed' = AddEntry(feed, r.entry)
             /\ caught' = IF r.raised THEN caught \cup {idx + 1} ELSE caught
             /\ playcount' = r.playcount
             /\ probe' = r.probe
             /\ ops' = ops \o r.ops
    /\ UNCHANGED <<envVars, mainVars, username, recent_tracks, builds, decision,
                   raised, hist, rateVars>>

\* One iteration of the for loop of create_rss: the now-playing filter, then
\* add_track_rss_entry inside try/except Exception.
AddTrack ==
    /\ pc = "tracks"
    /\ idx < Len(recent_tracks)
    /\ idx' = idx + 1
    /\ LET track == recent_tracks[idx + 1]
       IN  \/ /\ IsNowPlaying(track)
              /\ UNCHANGED <<feed, caught, playcount, probe, ops>>
           \/ /\ ~IsNowPlaying(track)
              /\ \E n \in PlayCounts, h \in ProbeResults :
                   LET r == AddTrackRssEntry(track, username, n, h)
                   IN  /\ feed' = AddEntry(feed, r.entry)
                       /\ caught' = IF r.raised THEN caught \cup {idx + 1} ELSE caught
                       /\ playcount' = r.playcount
                       /\ probe' = r.probe
                       /\ ops' = ops \o r.ops
    /\ UNCHANGED <<envVars, mainVars, username, recent_tracks, builds, decision,
                   raised, hist, rateVars>>

\* feed.rss_file(fp); return fp
RssFile ==
    /\ pc = "tracks"
    /\ idx = Len(recent_tracks)
    /\ \/ /\ RssFileRaises(feed)
          /\ raised' = "ValueError"
          /\ pc' = "raised"
          /\ UNCHANGED files
       \/ /\ ~RssFileRaises(feed)
          /\ files' = [files EXCEPT ![username] = FeedFile(builds, feed)]
          /\ pc' = "returned"
          /\ UNCHANGED raised
    /\ ops' = Append(ops, "rss_file")
    /\ UNCHANGED <<remote, usernames, runs, todo, username, recent_tracks, idx,
                   feed, builds, decision, caught, playcount, probe, hist,
                   rateVars>>

\* what the next sync of this user finds: whether this one returned, what it
\* fetched, and the file it leaves
Remember(ok) == [hist EXCEPT ![username] =
                   [valid |-> ok, fetched |-> recent_tracks, content |-> files[username]]]

\* create_recent_tracks_rss returns to the loop of main
SyncReturn ==
    /\ pc = "returned"
    /\ pc' = "main"
    /\ hist' = Remember(TRUE)
    /\ UNCHANGED <<envVars, usernames, runs, todo, username, recent_tracks, idx,
                   feed, builds, decision, raised, caught, playcount, probe, ops,
                   rateVars>>

\* An exception leaves create_rss and create_recent_tracks_rss; the loop of
\* main has no handler, so the run ends with a traceback.
Uncaught ==
    /\ pc = "raised"
    /\ pc' = "crashed"
    /\ hist' = Remember(FALSE)
    /\ UNCHANGED <<envVars, usernames, runs, todo, username, recent_tracks, idx,
                   feed, builds, decision, raised, caught, playcount, probe, ops,
                   rateVars>>

\* the loop of main is through
MainExit ==
    /\ pc = "main"
    /\ todo = {}
    /\ pc' = "exited"
    /\ UNCHANGED <<envVars, usernames, runs, todo, syncVars, rateVars>>

\* Between two runs a user plays a track: the service puts it first, and
\* its window of recent tracks drops the oldest one once it is full.
Listen ==
    /\ pc \in {"exited", "crashed"}
    /\ runs + Cardinality(usernames) <= MaxSyncs
    /\ \E u \in usernames, t \in Tracks :
         \/ /\ TotalTracks(remote) < MaxTracks
            /\ remote' = [remote EXCEPT ![u] = <<t>> \o @]
         \/ /\ TotalTracks(remote) = MaxTracks
            /\ remote[u] # <<>>
            /\ remote' = [remote EXCEPT ![u] = <<t>> \o SubSeq(@, 1, Len(@) - 1)]
    /\ UNCHANGED <<files, mainVars, syncVars, rateVars>>

Next ==
    \/ MainStart
    \/ GetRecentTracks
    \/ CreateRss
    \/ AddTrack
    \/ RssFile
    \/ SyncReturn
    \/ Uncaught
    \/ MainExit
    \/ Listen

Spec == Init /\ [][Next]_vars

(***************************************************************************)
(* One run of main for one user, after earlier runs                        *)
(***************************************************************************)
RECURSIVE EntriesOf(_, _)
\* the entries create_rss builds for the tracks l when every play count is 1
\* and every probe succeeds
EntriesOf(l, u) ==
    IF l = <<>> THEN <<>>
    ELSE LET track == l[Len(l)]
             rest == EntriesOf(SubSeq(l, 1, Len(l) - 1), u)
         IN  IF IsNowPlaying(track) THEN rest
             ELSE AddEntry(rest, AddTrackRssEntry(track, u, 1, "ok").entry)

\* the feed files an earlier run can have left
PriorFeeds(u) ==
    {FeedFile(0, EntriesOf(FetchedTracks(r), u)) :
        r \in {l \in ListsUpTo(MaxOld) : ~RssFileRaises(EntriesOf(FetchedTracks(l), u))}}

\* main has just been started for the one user u; earlier runs are over
InitOnce ==
    /\ usernames = {<<"u">>}
    /\ remote \in {r \in [Users -> ListsUpTo(MaxTracks)] : r[<<"v">>] = <<>>}
    /\ files \in {f \in [Users -> {Absent, Malformed} \cup PriorFeeds(<<"u">>)] :
                      f[<<"v">>] = Absent}
    /\ runs = MaxSyncs
    /\ todo = usernames
    /\ pc = "main"
    /\ SyncIdle
    /\ RateIdle

NextOnce ==
    \/ GetRecentTracks
    \/ CreateRss
    \/ AddTrack
    \/ RssFile
    \/ SyncReturn
    \/ Uncaught
    \/ MainExit

SpecOnce == InitOnce /\ [][NextOnce]_vars

(***************************************************************************)
(* lastfeeder.py: LastFeeder.api_wait, one caller, against real time       *)
(***************************************************************************)
InitRate ==
    /\ usernames = {<<"u">>}
    /\ remote = [u \in Users |-> <<>>]
    /\ files = [u \in Users |-> Absent]
    /\ runs = 0
    /\ todo = {}
    /\ pc = "idle"
    /\ SyncIdle
    /\ RateIdle

\* the float nearest to x, ties to the even one, where floats are u apart
Round(x, u) ==
    LET q == x \div u
        r == x % u
    IN  IF 2 * r < u THEN q * u
        ELSE IF 2 * r > u THEN (q + 1) * u
        ELSE IF q % 2 = 0 THEN q * u
        ELSE (q + 1) * u

\* time() as api_wait reads it: the wall clock, as a float
Time == Round(clock + skew, ulp)

\* the real time modelled
Horizon == MaxClock * ulp

\* real time passes between two calls of api_wait
Tick ==
    /\ apc = "idle"
    /\ other.apc = "idle"
    /\ clock < Horizon
    /\ clock' = clock + 1
    /\ UNCHANGED <<envVars, mainVars, syncVars, has_last, last_api_call_time, now,
                   time_since, apc, calls, slept, prev_return, last_return, skew,
                   ulp, min_delay, waited, overslept, other>>

\* now = time(); time_since = now - self.last_api_call_time, or AttributeError
ApiWaitEnter ==
    /\ apc = "idle"
    /\ now' = Time
    /\ slept' = FALSE
    /\ waited' = 0
    /\ \/ /\ ~has_last
          /\ apc' = "store"
          /\ UNCHANGED time_since
       \/ /\ has_last
          /\ time_since' = Time - last_api_call_time
          /\ apc' = "loop"
    /\ UNCHANGED <<envVars, mainVars, syncVars, clock, has_last,
                   last_api_call_time, calls, prev_return, last_return, skew,
                   ulp, min_delay, overslept, other>>

\* one pass of the while loop; sleep(wait) lasts wait or longer, and
\* now += wait is a float addition
ApiWaitSleep ==
    /\ apc = "loop"
    /\ time_since < min_delay
    /\ LET wait == min_delay - time_since
           sum == Round(now + wait, ulp)
       IN  /\ \E extra \in 0..MaxOversleep :
                /\ clock + wait + extra <= Horizon
                /\ clock' = clock + wait + extra
                /\ overslept' = (overslept \/ extra > 0)
           /\ now' = sum
           /\ time_since' = sum - last_api_call_time
           /\ waited' = waited + wait
    /\ slept' = TRUE
    /\ UNCHANGED <<envVars, mainVars, syncVars, has_last, last_api_call_time,
                   apc, calls, prev_return, last_return, skew, ulp, min_delay,
                   other>>

\* self.last_api_call_time = now, and the call returns
ApiWaitReturn ==
    /\ \/ apc = "store"
       \/ apc = "loop" /\ time_since >= min_delay
    /\ last_api_call_time' = now
    /\ has_last' = TRUE
    /\ apc' = "idle"
    /\ calls' = calls + 1
    /\ prev_return' = last_return
    /\ last_return' = clock
    /\ UNCHANGED <<envVars, mainVars, syncVars, clock, now, time_since, slept,
                   skew, ulp, min_delay, waited, overslept, other>>

NextRate ==
    \/ Tick
    \/ ApiWaitEnter
    \/ ApiWaitSleep
    \/ ApiWaitReturn

SpecRate == InitRate /\ [][NextRate]_vars

(***************************************************************************)
(* api_wait, one caller, with a wall clock that is set while it runs       *)
(***************************************************************************)
\* the wall clock is set forward or backward (date, NTP step), between two
\* calls of api_wait or during one
ClockJump ==
    /\ \E d \in (-MaxJump)..MaxJump :
         /\ d # 0
         /\ skew + d \in (-MaxJump)..MaxJump
         /\ skew' = skew + d
    /\ UNCHANGED <<envVars, mainVars, syncVars, clock, has_last,
                   last_api_call_time, now, time_since, apc, calls, slept,
                   prev_return, last_return, ulp, min_delay, waited, overslept,
                   other>>

NextSkew ==
    \/ NextRate
    \/ ClockJump

SpecSkew == InitRate /\ [][NextSkew]_vars

(***************************************************************************)
(* api_wait, one caller, with times finer than the floats time() returns:  *)
(* at the size of an epoch time two floats are Ulp ticks apart, and        *)
(* min_delay lies between two multiples of that                            *)
(***************************************************************************)
\* values of min_delay between 2 and 3 times the spacing of the floats
Delays == (2 * Ulp + 1)..(3 * Ulp - 1)

InitFloat ==
    /\ usernames = {<<"u">>}
    /\ remote = [u \in Users |-> <<>>]
    /\ files = [u \in Users |-> Absent]
    /\ runs = 0
    /\ todo = {}
    /\ pc = "idle"
    /\ SyncIdle
    /\ CallerIdle
    /\ ulp = Ulp
    /\ min_delay \in Delays

SpecFloat == InitFloat /\ [][NextRate]_vars

(***************************************************************************)
(* api_wait called by two threads on one LastFeeder.  A sleep moves real   *)
(* time on in one step, so the thread that does not sleep stands still     *)
(* meanwhile: the two threads never sleep at the same time.                *)
(***************************************************************************)
\* the second thread: now = time(); time_since = now - last_api_call_time
OtherEnter ==
    /\ other.apc = "idle"
    /\ other' = IF has_last
                THEN [apc |-> "loop", now |-> Time,
                      time_since |-> Time - last_api_call_time]
                ELSE [apc |-> "store", now |-> Time, time_since |-> 0]
    /\ UNCHANGED <<envVars, mainVars, syncVars, clock, has_last,
                   last_api_call_time, now, time_since, apc, calls, slept,
                   prev_return, last_return, skew, ulp, min_delay, waited,
                   overslept>>

\* the second thread: one pass of the while loop
OtherSleep ==
    /\ other.apc = "loop"
    /\ other.time_since < min_delay
    /\ LET wait == min_delay - other.time_since
           sum == Round(other.now + wait, ulp)
       IN  /\ \E extra \in 0..MaxOversleep :
                /\ clock + wait + extra <= Horizon
                /\ clock' = clock + wait + extra
                /\ overslept' = (overslept \/ extra > 0)
           /\ other' = [other EXCEPT !.now = sum,
                                     !.time_since = sum - last_api_call_time]
    /\ UNCHANGED <<envVars, mainVars, syncVars, has_last, last_api_call_time,
                   now, time_since, apc, calls, slept, prev_return, last_return,
                   skew, ulp, min_delay, waited>>

\* the second thread: self.last_api_call_time = now, and the call returns
OtherReturn ==
    /\ \/ other.apc = "store"
       \/ other.apc = "loop" /\ other.time_since >= min_delay
    /\ last_api_call_time' = other.now
    /\ has_last' = TRUE
    /\ other' = [other EXCEPT !.apc = "idle"]
    /\ calls' = calls + 1
    /\ prev_return' = last_return
    /\ last_return' = clock
    /\ UNCHANGED <<envVars, mainVars, syncVars, clock, now, time_since, apc,
                   slept, skew, ulp, min_delay, waited, overslept>>

\* the two threads call api_wait whenever they like
NextThreads ==
    \/ NextRate
    \/ OtherEnter
    \/ OtherSleep
    \/ OtherReturn

SpecThreads == InitRate /\ [][NextThreads]_vars

\* api_wait under a lock: a thread enters when the other one is outside
LockedEnter == other.apc = "idle" /\ ApiWaitEnter

OtherLockedEnter == apc = "idle" /\ OtherEnter

NextLocked ==
    \/ Tick
    \/ LockedEnter
    \/ ApiWaitSleep
    \/ ApiWaitReturn
    \/ OtherLockedEnter
    \/ OtherSleep
    \/ OtherReturn

SpecLocked == InitRate /\ [][NextLocked]_vars

(***************************************************************************)
(* One run of main for one user whose two scrobbles have artist and track  *)
(* names that may hold the character mkguid separates its fields with      *)
(***************************************************************************)
MaxName == 2

RECURSIVE NamesUpTo(_)
\* the names of 1..n characters over a letter and the hyphen
NamesUpTo(n) ==
    IF n = 0 THEN {}
    ELSE LET S == NamesUpTo(n - 1)
         IN  {<<"a">>, <<"-">>}
               \cup {<<c>> \o w : c \in {"a", "-"}, w \in {x \in S : Len(x) = n - 1}}

\* scrobbles of one second, with or without an artist mbid
NamedTracks ==
    {Drop(Scrobble(text, mbid, name, <<"1">>, <<>>), "image") :
        text \in NamesUpTo(MaxName), mbid \in {<<>>, <<"a">>},
        name \in NamesUpTo(MaxName)}

InitGuid ==
    /\ usernames = {<<"u">>}
    /\ remote \in {r \in [Users -> {<<>>} \cup {<<s, t>> : s, t \in NamedTracks}] :
                      r[<<"u">>] # <<>> /\ r[<<"v">>] = <<>>}
    /\ files \in {f \in [Users -> {Absent, Malformed}] : f[<<"v">>] = Absent}
    /\ runs = MaxSyncs
    /\ todo = usernames
    /\ pc = "main"
    /\ SyncIdle
    /\ RateIdle

SpecGuid == InitGuid /\ [][NextOnce]_vars

(***************************************************************************)
(* Properties                                                              *)
(***************************************************************************)
\* create_rss has returned or raised
SyncEnded == pc \in {"returned", "raised"}

\* the user's feed file as it was before the sync in progress
Before == hist[username].content

\* a record add_track_rss_entry cannot read in full
MalformedRecord(t) == ~({"artist", "name", "date", "url"} \subseteq t.keys)

\* the fetched tracks that are not now-playing
Historical == {i \in 1..Len(recent_tracks) : ~IsNowPlaying(recent_tracks[i])}

\* C1: after a sync of a user that returned, the next sync of that user, if
\* it fetches the same track list, takes the UP_TO_DATE branch and leaves the
\* file's content as it was.
C1_Idempotence ==
    (SyncEnded /\ hist[username].valid /\ hist[username].fetched = recent_tracks)
        => (decision = "UP_TO_DATE" /\ files[username] = Before)

\* C2: when the fetch returns the empty list and a feed file exists, the
\* guard says UP_TO_DATE and the file is left untouched.
C2_FetchFailureKeepsFile ==
    (SyncEnded /\ recent_tracks = <<>> /\ Before.state = "feed")
        => (decision = "UP_TO_DATE" /\ files[username] = Before)

\* C3: a run of main never ends before every username has been synced: an
\* exception of one sync is caught at the loop.
C3_UsernameIsolation ==
    (pc \in {"exited", "crashed"}) => (pc = "exited" /\ todo = {})

\* C4: when a fetched record is malformed, create_rss still returns, the
\* file is written, and it holds exactly the entries of the other
\* historical tracks: nothing, complete or partial, for the malformed one.
C4_TrackIsolation ==
    (/\ SyncEnded
     /\ decision = "NEEDS_UPDATE"
     /\ \E i \in Historical : MalformedRecord(recent_tracks[i]))
        => /\ pc = "returned"
           /\ files[username] = FeedFile(builds, feed)
           /\ Len(files[username].items) =
                 Cardinality({i \in Historical : ~MalformedRecord(recent_tracks[i])})

\* C5: the first api_wait returns without sleeping, and every later one
\* returns no earlier than min_delay after the previous one returned.
C5_ApiWaitSpacing ==
    /\ (calls = 1 /\ apc = "idle" => ~slept)
    /\ (prev_return >= 0 => last_return - prev_return >= MinDelay)

OutboundCalls == {"user.getrecenttracks", "track.getinfo", "HEAD"}

\* C6: every outbound call (recent tracks, play count, image HEAD probe) is
\* immediately preceded by api_wait.
C6_EveryCallWaits ==
    \A i \in 1..Len(ops) :
        ops[i] \in OutboundCalls => (i > 1 /\ ops[i - 1] = "api_wait")

\* guid of the entry of the most recent scrobble: rss_file writes the
\* entries newest last
MostRecentGuid(f) == IF f.items = <<>> THEN <<>> ELSE f.items[Len(f.items)].guid

\* C7: when the file's most recent entry has the guid of the first fetched
\* track, the decision is UP_TO_DATE and the file is unchanged; when the two
\* guids differ, the decision is NEEDS_UPDATE and the file is rebuilt.
C7_MergeGuard ==
    (/\ SyncEnded
     /\ Before.state = "feed"
     /\ MostRecentGuid(Before) # <<>>
     /\ recent_tracks # <<>>
     /\ ~MkguidRaises(recent_tracks[1]))
        => IF MostRecentGuid(Before) = mkguid(username, recent_tracks[1])
           THEN /\ decision = "UP_TO_DATE"
                /\ pc = "returned"
                /\ files[username] = Before
           ELSE /\ decision = "NEEDS_UPDATE"
                /\ pc = "returned"
                /\ files[username] = FeedFile(builds, feed)
                /\ files[username] # Before

\* C8: with no feed file before the sync, the decision is NEEDS_UPDATE and
\* afterwards the file exists with one entry per historical fetched track.
C8_NoFileCreatesFeed ==
    (SyncEnded /\ Before.state = "absent")
        => /\ decision = "NEEDS_UPDATE"
           /\ pc = "returned"
           /\ files[username].state = "feed"
           /\ Len(files[username].items) = Cardinality(Historical)

\* C9: a feed file that cannot be parsed, or holds no guid, makes the
\* decision NEEDS_UPDATE; it does not make the sync fail.
C9_MalformedFileRebuilt ==
    (/\ SyncEnded
     /\ \/ Before.state = "malformed"
        \/ Before.state = "feed" /\ OldGuids(Before) = <<>>)
        => (decision = "NEEDS_UPDATE" /\ raised # "ParseError")

\* the loop has just handled a complete historical record whose play count
\* came back as None or 0
PlaycountFailed ==
    /\ pc = "tracks"
    /\ idx > 0
    /\ ~IsNowPlaying(recent_tracks[idx])
    /\ ~MalformedRecord(recent_tracks[idx])
    /\ playcount \in {None, 0}

\* C10: when get_playcount fails or reports 0 for a track, its entry is
\* added with the bare "artist - name" title and with guid, link and
\* published set; nothing but a failed image probe is caught for it, and the
\* loop goes on.
C10_PlaycountIsolation ==
    PlaycountFailed =>
        LET track == recent_tracks[idx]
        IN  /\ Len(feed) >= 1
            /\ feed[1].title = track.text \o <<" ", "-", " ">> \o track.name
            /\ feed[1].guid = mkguid(username, track)
            /\ feed[1].link = track.url
            /\ feed[1].published = ToInt(track.uts)
            /\ (idx \in caught => probe \in {"error", "no_header"})

\* a play count failed for a track that is not the last one
C10_Witness ==
    /\ PlaycountFailed
    /\ playcount = None
    /\ idx < Len(recent_tracks)

\* the entry of the historical track i among the entries the loop has added
\* so far (add_entry puts each new one first)
EntryOf(entries, i) ==
    entries[Len(entries) - Cardinality({j \in Historical : j <= i}) + 1]

\* the complete records handled so far whose image probe failed
ProbeFailed ==
    {i \in Historical :
        /\ i <= idx
        /\ i \in caught
        /\ ~MalformedRecord(recent_tracks[i])
        /\ ImageUrl(recent_tracks[i]) # <<>>}

\* C11: when the HEAD probe of a track's last image fails, the track's entry
\* stays in the feed without enclosure and with title, guid, link and
\* published set; the loop goes on to the end of the list, and the file
\* rss_file writes holds the entry.
C11_ProbeIsolation ==
    /\ pc \in {"tracks", "returned", "raised"} => Len(feed) = Cardinality({j \in Historical : j <= idx})
    /\ \A i \in ProbeFailed :
         LET track == recent_tracks[i]
             e == EntryOf(feed, i)
         IN  /\ e.title \in {Title(track, n) : n \in PlayCounts}
             /\ e.guid = mkguid(username, track)
             /\ e.link = track.url
             /\ e.published = ToInt(track.uts)
             /\ e.enclosure = <<>>
             /\ (SyncEnded /\ decision = "NEEDS_UPDATE") => idx = Len(recent_tracks)
             /\ (pc = "returned" /\ decision = "NEEDS_UPDATE")
                    => /\ files[username].state = "feed"
                       /\ EntryOf(files[username].items, i) = e

\* the probe of the first of two tracks failed, and the file is written with
\* both entries
C11_Witness ==
    /\ pc = "returned"
    /\ decision = "NEEDS_UPDATE"
    /\ 1 \in ProbeFailed
    /\ probe = "no_header"
    /\ Len(files[username].items) = 2

\* the tracks of the raw list r that are not now-playing
Scrobbled(r) == {i \in 1..Len(r) : ~IsNowPlaying(r[i])}

\* C12: the feed holds one entry for each fetched track handled so far that
\* is not now-playing, each made from that track, and none for a now-playing
\* track at any position; the file written for a raw list the service
\* answered with holds as many entries as the list has tracks that are not
\* now-playing.
C12_NowPlayingExcluded ==
    /\ Len(feed) = Cardinality({j \in Historical : j <= idx})
    /\ \A i \in Historical :
         i <= idx =>
            EntryOf(feed, i).title \in
                {<<>>} \cup {Title(recent_tracks[i], n) : n \in PlayCounts}
    /\ (/\ pc = "returned"
        /\ decision = "NEEDS_UPDATE"
        /\ recent_tracks = FetchedTracks(remote[username]))
            => Len(files[username].items) = Cardinality(Scrobbled(remote[username]))

\* a list with a now-playing track after the first position was written
\* without it
C12_Witness ==
    /\ pc = "returned"
    /\ decision = "NEEDS_UPDATE"
    /\ Len(recent_tracks) = 2
    /\ IsNowPlaying(recent_tracks[2])
    /\ Len(files[username].items) = 1

\* the item at position k of the document is the entry made from track i
MadeFrom(item, i) ==
    LET track == recent_tracks[i]
    IN  /\ ({"artist", "name"} \subseteq track.keys
            => item.title \in {Title(track, n) : n \in PlayCounts})
        /\ (~MkguidRaises(track) => item.guid = mkguid(username, track))

\* the file rss_file has just written for the fetched tracks
Written == pc = "returned" /\ decision = "NEEDS_UPDATE"

ScrobbleKey(t) == <<t.uts, IF t.mbid # <<>> THEN t.mbid ELSE t.text, t.name>>

\* C14: in a written feed, the entries of two scrobbles that differ in
\* timestamp, in artist mbid-or-name or in track name have different guids.
C14_GuidUnique ==
    Written =>
        \A i, j \in Historical :
            ScrobbleKey(recent_tracks[i]) # ScrobbleKey(recent_tracks[j])
                => EntryOf(files[username].items, i).guid
                     # EntryOf(files[username].items, j).guid

\* the step of a sync an event of ops belongs to: 1 fetch, 2 merge check,
\* 3 normalization (play counts, image probes), 4 write; 0 for the limiter
Phase(e) ==
    CASE e = "user.getrecenttracks" -> 1
      [] e = "guard" -> 2
      [] e \in {"track.getinfo", "HEAD"} -> 3
      [] e = "rss_file" -> 4
      [] OTHER -> 0

\* C15: in a sync the fetch comes first, then the merge check, then the
\* per-track work, then the write, each of fetch, check and write at most
\* once; and when the check says UP_TO_DATE the sync ends there: no play
\* count is fetched, no image is probed and the file is not written.
C15_StepOrder ==
    /\ \A i, j \in 1..Len(ops) :
         (i < j /\ Phase(ops[i]) > 0 /\ Phase(ops[j]) > 0)
            => /\ Phase(ops[i]) <= Phase(ops[j])
               /\ (Phase(ops[i]) = Phase(ops[j]) => Phase(ops[i]) = 3)
    /\ \A j \in 1..Len(ops) :
         /\ Phase(ops[j]) >= 2 => \E i \in 1..(j - 1) : Phase(ops[i]) = 1
         /\ Phase(ops[j]) >= 3 => \E i \in 1..(j - 1) : Phase(ops[i]) = 2
    /\ (pc = "returned" /\ decision = "NEEDS_UPDATE")
            => Phase(ops[Len(ops)]) = 4
    /\ decision = "UP_TO_DATE"
            => /\ ops = <<"api_wait", "user.getrecenttracks", "guard">>
               /\ pc \in {"returned", "main", "exited"}
               /\ feed = <<>>
               /\ files[username] = Before

\* a sync that fetched a track found the file up to date and returned
C15_Witness ==
    /\ pc = "returned"
    /\ decision = "UP_TO_DATE"
    /\ recent_tracks # <<>>
    /\ ~MalformedRecord(recent_tracks[1])

\* what fp.up().mkdir() and feed.rss_file(fp) can raise
WriteFailures == {"OSError", "ValueError"}

\* C16: an exception leaves create_rss only from the creation of the
\* directory or from the final write: never from the guard's parse of the
\* old file, from the guid of the first fetched track, from the fetch or
\* from the work on a track.
C16_OnlyWriteAborts == pc = "raised" => raised \in WriteFailures

\* C17: whatever is done to the wall clock, two consecutive returns of
\* api_wait are min_delay or more of real time apart (sleeps that last
\* longer than asked left aside: see C5).
C17_MonotonicSpacing ==
    (prev_return >= 0 /\ ~overslept) => last_return - prev_return >= min_delay

\* C18: with the calls of the two threads serialized, no two consecutive
\* returns of api_wait are less than min_delay apart.
C18_SerializedSpacing ==
    (calls >= 2 /\ apc = "idle" /\ other.apc = "idle")
        => last_return - prev_return >= min_delay

\* the while loop is where a pass changes nothing: wait is less than half
\* the spacing of the floats at now, so now += wait leaves now as it is,
\* time_since stays below min_delay, and the loop never ends
LoopStuck ==
    /\ apc = "loop"
    /\ time_since < min_delay
    /\ Round(now + (min_delay - time_since), ulp) = now

\* C19: the while loop of api_wait is never where it cannot end, and the
\* time a call asks sleep() for is min_delay at most in all.
C19_TerminatesBounded == ~LoopStuck /\ waited <= min_delay

====
